---- MODULE Spec2Model ----
(***************************************************************************)
(* generate_hex_score_map.py: the batch pipeline that reads a region score *)
(* table, a per-hex climate table and a base geometry collection, assigns  *)
(* the nearest region to untagged hexes, scores every hex, smooths the     *)
(* score over the k nearest hexes and writes the fields back onto the      *)
(* geometry features.                                                      *)
(*                                                                         *)
(* Floats are modelled as exact rationals <<n, d>> in lowest terms, d > 0; *)
(* NaN (and None in a numeric column) is <<0, 0>> and propagates through   *)
(* arithmetic as it does in numpy.  A DataFrame is a sequence of rows, a   *)
(* row a function from column names to values; a JSON property map is a    *)
(* function from keys to values, a missing key being outside its DOMAIN.   *)
(***************************************************************************)
EXTENDS Integers, Sequences, FiniteSets, TLC

VARIABLES
  pc,          \* position of main(): "load", "assign", "merge", "score", "write", "done", "failed"
  scores_df,   \* datacenter_scores_real.csv: region, lat, lon, sustainability, profitability
  climate_df,  \* hex_weather_data_all.csv: hex_id, local_temp_c, elevation_m (, region)
  base_map,    \* features of public/data/score_map.json as read from disk
  features,    \* the in-memory feature list main() mutates and writes
  hex_df,      \* the hex table as it moves through the stages
  knn_idx,     \* knn_smooth's knn_idx: row -> rows averaged for it
  out_count    \* the feature count printed on completion (-1 before)

vars == <<pc, scores_df, climate_df, base_map, features, hex_df, knn_idx, out_count>>

----------------------------------------------------------------------------
(* Bounds of the model *)

MaxFeatures == 2

MaxSmoothHex == 23

----------------------------------------------------------------------------
(* Floats as rationals *)

NaN == <<0, 0>>

\* np.inf: above every finite value under RLt, never fed to arithmetic
Inf == <<1, 0>>

IsNaN(x) == x = NaN

Abs(i) == IF i < 0 THEN 0 - i ELSE i

RECURSIVE Gcd(_, _)
Gcd(a, b) == IF b = 0 THEN a ELSE Gcd(b, a % b)

Rat(n, d) ==
  IF d = 0 THEN NaN
  ELSE LET g == Gcd(Abs(n), Abs(d))
           s == IF d < 0 THEN 0 - 1 ELSE 1
       IN  <<(s * n) \div g, (s * d) \div g>>

Num(i) == <<i, 1>>

RAdd(x, y) == IF IsNaN(x) \/ IsNaN(y) THEN NaN ELSE Rat(x[1] * y[2] + y[1] * x[2], x[2] * y[2])

RSub(x, y) == IF IsNaN(x) \/ IsNaN(y) THEN NaN ELSE Rat(x[1] * y[2] - y[1] * x[2], x[2] * y[2])

RMul(x, y) == IF IsNaN(x) \/ IsNaN(y) THEN NaN ELSE Rat(x[1] * y[1], x[2] * y[2])

RDiv(x, y) == IF IsNaN(x) \/ IsNaN(y) THEN NaN ELSE Rat(x[1] * y[2], x[2] * y[1])

\* x < y; False when either is NaN, as every float comparison with NaN is
RLt(x, y) == ~IsNaN(x) /\ ~IsNaN(y) /\ x[1] * y[2] < y[1] * x[2]

Min2(a, b) == IF a < b THEN a ELSE b

Max2(a, b) == IF a > b THEN a ELSE b

\* the null of a string column or of a JSON string property
None == "<None>"

\* dict.get / Series.get: the value, or None when the key is missing
GetNum(m, k) == IF k \in DOMAIN m THEN m[k] ELSE NaN

GetStr(m, k) == IF k \in DOMAIN m THEN m[k] ELSE None

\* dict.update / adding columns to a row
Update(m, u) == [k \in DOMAIN m \cup DOMAIN u |-> IF k \in DOMAIN u THEN u[k] ELSE m[k]]

----------------------------------------------------------------------------
(* Great-circle distance *)

EarthRadiusM == 6371000

\* coordinates of the model lie on a grid of whole hundredths of a degree
CentiDeg(x) == (x[1] * 100) \div x[2]

\* EarthRadiusM * c, for a central angle c of cd hundredths of a degree
\* (pi / 18000 = 174533e-9 rad), in whole metres
Arc(cd) == (cd * (((EarthRadiusM \div 1000) * 174533) \div 1000)) \div 1000

\* the haversine formula evaluated off the axes, in whole metres, for the
\* pairs of grid points <<lat1, lon1, lat2, lon2>> the inputs can pair up
OffAxisM ==
  [p \in {<<1, 1, 0, 0>>, <<1, 1, 1000, 1000>>, <<1, 1, 0, 1000>>,
          <<1, 1, 0, 500>>, <<0, 500, 1000, 1000>>} |->
     CASE p = <<1, 1, 0, 0>> -> 1572
       [] p = <<1, 1, 1000, 1000>> -> 1566948
       [] p = <<1, 1, 0, 1000>> -> 1110837
       [] p = <<1, 1, 0, 500>> -> 554863
       [] p = <<0, 500, 1000, 1000>> -> 1241930]

\* 6371000 * 2 * atan2(sqrt(a), sqrt(1 - a)) with
\* a = sin^2(dphi/2) + cos(phi1) cos(phi2) sin^2(dlambda/2).  On one meridian
\* (dlambda = 0) a = sin^2(dphi/2), and on the equator a = sin^2(dlambda/2),
\* so the distance is the radius times the angle; elsewhere it is tabulated.
Haversine(lat1, lon1, lat2, lon2) ==
  LET a1 == CentiDeg(lat1)
      o1 == CentiDeg(lon1)
      a2 == CentiDeg(lat2)
      o2 == CentiDeg(lon2)
  IN  IF o1 = o2 THEN Num(Arc(Abs(a1 - a2)))
      ELSE IF a1 = 0 /\ a2 = 0 THEN Num(Arc(Abs(o1 - o2)))
      ELSE IF <<a1, o1, a2, o2>> \in DOMAIN OffAxisM THEN Num(OffAxisM[<<a1, o1, a2, o2>>])
      ELSE Num(OffAxisM[<<a2, o2, a1, o1>>])

----------------------------------------------------------------------------
(* load_base_data *)

HasId(props) == "hex_id" \in DOMAIN props

HasLatLon(props) == HasId(props) /\ "lat" \in DOMAIN props /\ "lon" \in DOMAIN props

HasRegion(props) == HasId(props) /\ "region" \in DOMAIN props /\ props["region"] # None

\* latlon_df: index of the first feature of this hex_id with both
\* coordinates, the row drop_duplicates("hex_id") keeps; 0 if none
FirstLatLon(fs, hid) ==
  LET hits == {i \in DOMAIN fs : HasLatLon(fs[i].properties) /\ fs[i].properties["hex_id"] = hid}
  IN  IF hits = {} THEN 0 ELSE CHOOSE i \in hits : \A j \in hits : i <= j

\* region_df: index of the first feature of this hex_id with a region; 0 if none
FirstRegion(fs, hid) ==
  LET hits == {i \in DOMAIN fs : HasRegion(fs[i].properties) /\ fs[i].properties["hex_id"] = hid}
  IN  IF hits = {} THEN 0 ELSE CHOOSE i \in hits : \A j \in hits : i <= j

\* pd.DataFrame([]) has no hex_id column: merging on it raises KeyError
LoadFails(fs) ==
  \/ \A i \in DOMAIN fs : ~HasLatLon(fs[i].properties)
  \/ \A i \in DOMAIN fs : ~HasRegion(fs[i].properties)

\* the climate row with lat/lon left-merged in, its own region column
\* dropped, and the geometry's region tag left-merged in
LoadedRow(c, fs) ==
  LET ll == FirstLatLon(fs, c["hex_id"])
      rg == FirstRegion(fs, c["hex_id"])
  IN  [hex_id |-> c["hex_id"],
       local_temp_c |-> c["local_temp_c"],
       elevation_m |-> c["elevation_m"],
       lat |-> IF ll = 0 THEN NaN ELSE fs[ll].properties["lat"],
       lon |-> IF ll = 0 THEN NaN ELSE fs[ll].properties["lon"],
       region |-> IF rg = 0 THEN None ELSE fs[rg].properties["region"]]

LoadBaseData(climate, fs) == [i \in DOMAIN climate |-> LoadedRow(climate[i], fs)]


----------------------------------------------------------------------------
(* assign_region_if_missing *)

HasCoords(row) == ~IsNaN(row["lat"]) /\ ~IsNaN(row["lon"])

\* ArgMin taking the last index that holds the minimum
ArgMinLast(d) ==
  CHOOSE i \in DOMAIN d :
    /\ \A j \in DOMAIN d : ~RLt(d[j], d[i])
    /\ \A j \in DOMAIN d : j > i => RLt(d[i], d[j])

\* np.argmin: the first index holding the minimum
ArgMin(d) ==
  CHOOSE i \in DOMAIN d :
    /\ \A j \in DOMAIN d : ~RLt(d[j], d[i])
    /\ \A j \in DOMAIN d : j < i => RLt(d[i], d[j])

\* haversine_vec: the distances from one point to every region centroid
HaversineVec(lat, lon, scores) ==
  [r \in DOMAIN scores |-> Haversine(lat, lon, scores[r]["lat"], scores[r]["lon"])]

\* the loop's regions[i]: the row's own tag without coordinates, else the nearest region
NearestRegion(row, scores) ==
  IF ~HasCoords(row) THEN row["region"]
  ELSE LET d == HaversineVec(row["lat"], row["lon"], scores)
       IN  scores[ArgMin(d)]["region"]

\* the loop's dists[i]
NearestDist(row, scores) ==
  IF ~HasCoords(row) THEN NaN
  ELSE LET d == HaversineVec(row["lat"], row["lon"], scores)
       IN  d[ArgMin(d)]

\* FillNa written as a plain assignment of the computed regions
FillNaOverwrite(old, new) == new

\* Series.fillna: the value kept unless it is null
FillNa(old, new) == IF old = None THEN new ELSE old

AssignRegionIfMissing(df, scores) ==
  IF \A i \in DOMAIN df : df[i]["region"] # None THEN df
  ELSE [i \in DOMAIN df |->
          Update(df[i], [region |-> FillNa(df[i]["region"], NearestRegion(df[i], scores)),
                         dist_to_region_m |-> NearestDist(df[i], scores)])]

----------------------------------------------------------------------------
(* main: hex_df.merge(scores_df, on="region", how="left", suffixes=("", "_region")) *)

\* index of the region row with this name, 0 if none (region names are unique)
RegionIdx(scores, name) ==
  IF \E r \in DOMAIN scores : scores[r]["region"] = name
  THEN CHOOSE r \in DOMAIN scores : scores[r]["region"] = name
  ELSE 0

MergeRow(row, scores) ==
  LET r == RegionIdx(scores, row["region"])
  IN  Update(row, [lat_region |-> IF r = 0 THEN NaN ELSE scores[r]["lat"],
                   lon_region |-> IF r = 0 THEN NaN ELSE scores[r]["lon"],
                   sustainability |-> IF r = 0 THEN NaN ELSE scores[r]["sustainability"],
                   profitability |-> IF r = 0 THEN NaN ELSE scores[r]["profitability"]])

MergeScores(df, scores) == [i \in DOMAIN df |-> MergeRow(df[i], scores)]

----------------------------------------------------------------------------
(* minmax_clamped *)

\* the non-null values of a column, as the set of rows holding them
NotNull(col) == {i \in DOMAIN col : ~IsNaN(col[i])}

\* the k-th smallest (k >= 1) of the non-null values of a column
KthSmallest(col, k) ==
  LET v == CHOOSE i \in NotNull(col) :
             /\ Cardinality({j \in NotNull(col) : RLt(col[j], col[i])}) < k
             /\ Cardinality({j \in NotNull(col) : ~RLt(col[i], col[j])}) >= k
  IN  col[v]

\* Series.quantile(q100 / 100), linear interpolation over the non-null values
Quantile(col, q100) ==
  LET n == Cardinality(NotNull(col))
      pos == q100 * (n - 1)
      i == pos \div 100
      f == pos % 100
  IN  IF n = 0 THEN NaN
      ELSE IF f = 0 THEN KthSmallest(col, i + 1)
      ELSE RAdd(KthSmallest(col, i + 1),
                RMul(Rat(f, 100), RSub(KthSmallest(col, i + 2), KthSmallest(col, i + 1))))

\* Series.clip(lo, hi): a null stays null, a null bound does not clip
Clip(x, lo, hi) == IF RLt(x, lo) THEN lo ELSE IF RLt(hi, x) THEN hi ELSE x

\* MinmaxClamped without the guard on the range: 0 / 0 is null, filled with 0.5
MinmaxClampedNoGuard(col) ==
  LET lo == Quantile(col, 1)
      hi == Quantile(col, 99)
  IN  [i \in DOMAIN col |->
         LET v == RDiv(RSub(Clip(col[i], lo, hi), lo), RSub(hi, lo))
         IN  IF IsNaN(v) THEN Rat(1, 2) ELSE v]

MinmaxClamped(col) ==
  LET lo == Quantile(col, 1)
      hi == Quantile(col, 99)
      rng == IF RLt(lo, hi) THEN RSub(hi, lo) ELSE Num(1)
  IN  [i \in DOMAIN col |->
         LET v == RDiv(RSub(Clip(col[i], lo, hi), lo), rng)
         IN  IF IsNaN(v) THEN Rat(1, 2) ELSE v]


----------------------------------------------------------------------------
(* compute_hex_scores *)

SMOOTH_K == 20

TEMP_WEIGHT == Rat(15, 100)

ELEV_WEIGHT == Rat(5, 100)

SMOOTH_BLEND == Rat(25, 100)

Column(df, name) == [i \in DOMAIN df |-> df[i][name]]

\* the columns compute_hex_scores adds before smoothing
ScoreRow(row, tn, en) ==
  LET cool == RSub(Num(1), tn)
      sus == RAdd(RAdd(row["sustainability"], RMul(cool, TEMP_WEIGHT)), RMul(en, ELEV_WEIGHT))
      prof == row["profitability"]
  IN  Update(row, [temp_norm |-> tn,
                   temp_cool_score |-> cool,
                   elev_norm |-> en,
                   sustainability_hex |-> sus,
                   profitability_hex |-> prof,
                   dc_score_hex |-> RAdd(RMul(Rat(6, 10), sus), RMul(Rat(4, 10), prof))])

RawScores(df) ==
  LET tn == MinmaxClamped(Column(df, "local_temp_c"))
      en == MinmaxClamped(Column(df, "elevation_m"))
  IN  [i \in DOMAIN df |-> ScoreRow(df[i], tn[i], en[i])]

\* valid = ~np.isnan(coords_arr).any(axis=1)
ValidRows(df) == {i \in DOMAIN df : HasCoords(df[i])}

\* KEff without the cap at k
KEffUncapped(k, valid_count) == Max2(1, valid_count - 1)

\* k_eff = max(1, min(k, valid_count - 1))
KEff(k, valid_count) == Max2(1, Min2(k, valid_count - 1))

\* DistRow without np.fill_diagonal: a hex is at distance 0 from itself
DistRowNoDiagonal(df, i) ==
  [j \in {r \in DOMAIN df : ~IsNaN(df[r]["lat"]) /\ ~IsNaN(df[r]["lon"])} |->
     Haversine(df[i]["lat"], df[i]["lon"], df[j]["lat"], df[j]["lon"])]

\* one row of dist after np.fill_diagonal(dist, np.inf)
DistRow(df, i) ==
  [j \in ValidRows(df) |->
     IF j = i THEN Inf ELSE Haversine(df[i]["lat"], df[i]["lon"], df[j]["lat"], df[j]["lon"])]

\* np.argpartition(d, kth=k-1)[:k]: k entries none of which is above an
\* entry left out; which of several equal entries at the cut it takes is
\* not specified, so every such selection is an outcome
ArgPartition(d, k) ==
  LET kth == KthSmallest(d, k)
      below == {j \in DOMAIN d : RLt(d[j], kth)}
      ties == {j \in DOMAIN d : d[j] = kth}
  IN  {below \cup t : t \in {u \in SUBSET ties : Cardinality(u) = k - Cardinality(below)}}

\* the selections knn_idx can hold for one row (none for a row left out of smoothing)
RowChoices(df, k, i) ==
  IF i \notin ValidRows(df) \/ Cardinality(ValidRows(df)) < 2 THEN {{}}
  ELSE ArgPartition(DistRow(df, i), KEff(k, Cardinality(ValidRows(df))))

\* every knn_idx the call can compute: one selection per row
RECURSIVE KnnChoices(_, _, _)
KnnChoices(df, k, n) ==
  IF n = 0 THEN {<<>>}
  ELSE {Append(p, c) : p \in KnnChoices(df, k, n - 1), c \in RowChoices(df, k, n)}

RECURSIVE SumOver(_, _)
SumOver(vals, S) ==
  IF S = {} THEN Num(0)
  ELSE LET j == CHOOSE x \in S : TRUE
       IN  RAdd(vals[j], SumOver(vals, S \ {j}))

\* NeighborMean as np.nanmean: null scores skipped
NeighborNanMean(vals, S) ==
  LET T == {j \in S : vals[j] # NaN}
  IN  IF T = {} THEN NaN ELSE RDiv(SumOver(vals, T), Num(Cardinality(T)))

\* vals_valid[knn_idx].mean(axis=1) for one row
NeighborMean(vals, S) == RDiv(SumOver(vals, S), Num(Cardinality(S)))

\* smoothed[valid] = self_weight * vals_valid + (1 - self_weight) * neighbor_means
SmoothedValue(vals, i, S, self_weight) ==
  RAdd(RMul(self_weight, vals[i]), RMul(RSub(Num(1), self_weight), NeighborMean(vals, S)))

\* knn_smooth with the selection idx: rows outside idx's reach keep vals
KnnSmooth(df, vals, idx, self_weight) ==
  [i \in DOMAIN df |->
     IF i \in ValidRows(df) /\ Cardinality(ValidRows(df)) >= 2
     THEN SmoothedValue(vals, i, idx[i], self_weight)
     ELSE vals[i]]

WithSmooth(df, idx) ==
  LET sm == KnnSmooth(df, Column(df, "dc_score_hex"), idx, SMOOTH_BLEND)
  IN  [i \in DOMAIN df |-> Update(df[i], [dc_score_hex_smooth |-> sm[i]])]

----------------------------------------------------------------------------
(* update_features *)

\* by_hex[hid]: the dict comprehension keeps the last feature of a hex_id; 0 if none
ByHex(fs, hid) ==
  LET hits == {i \in DOMAIN fs : HasId(fs[i].properties) /\ fs[i].properties["hex_id"] = hid}
  IN  IF hits = {} THEN 0 ELSE CHOOSE i \in hits : \A j \in hits : j <= i

\* the keys props.update writes for one scored row
RowProps(row) ==
  [hex_id |-> row["hex_id"],
   region |-> GetStr(row, "region"),
   lat |-> GetNum(row, "lat"),
   lon |-> GetNum(row, "lon"),
   local_temp_c |-> GetNum(row, "local_temp_c"),
   elevation_m |-> GetNum(row, "elevation_m"),
   temp_cool_score |-> GetNum(row, "temp_cool_score"),
   elev_norm |-> GetNum(row, "elev_norm"),
   dist_to_region |-> GetNum(row, "dist_to_region_m"),
   profitability |-> GetNum(row, "profitability_hex"),
   sustainability |-> GetNum(row, "sustainability_hex"),
   dc_score |-> GetNum(row, "dc_score_hex"),
   dc_score_smooth |-> GetNum(row, "dc_score_hex_smooth"),
   dc_score_temp |-> GetNum(row, "dc_score_hex")]

\* UpdateOne replacing the property map instead of updating it
UpdateOneReplace(fs, row) ==
  LET hits == {i \in DOMAIN fs : "hex_id" \in DOMAIN fs[i].properties
                                   /\ fs[i].properties["hex_id"] = row["hex_id"]}
  IN  IF hits = {} THEN fs
      ELSE [fs EXCEPT ![CHOOSE i \in hits : \A j \in hits : j <= i].properties = RowProps(row)]

\* one pass of the loop body
UpdateOne(fs, row) ==
  LET j == ByHex(fs, row["hex_id"])
  IN  IF j = 0 THEN fs
      ELSE [fs EXCEPT ![j].properties = Update(@, RowProps(row))]

\* the loop over the first n scored rows
RECURSIVE UpdateFeatures(_, _, _)
UpdateFeatures(fs, df, n) ==
  IF n = 0 THEN fs ELSE UpdateOne(UpdateFeatures(fs, df, n - 1), df[n])


\* PrintedCount counting the distinct hex_ids of the features
PrintedCountIds(fs) ==
  Cardinality({fs[j].properties["hex_id"] : j \in {x \in DOMAIN fs : HasId(fs[x].properties)}})

\* len(updated_features), the count main() prints
PrintedCount(fs) == Len(fs)

----------------------------------------------------------------------------
(* Inputs *)

RegionA == [region |-> "A", lat |-> Num(0), lon |-> Num(0),
            sustainability |-> Rat(1, 2), profitability |-> Rat(1, 2)]

RegionB == [region |-> "B", lat |-> Num(10), lon |-> Num(10),
            sustainability |-> Rat(4, 5), profitability |-> Rat(3, 10)]

RegionC == [region |-> "C", lat |-> Num(0), lon |-> Num(10),
            sustainability |-> Rat(3, 5), profitability |-> Rat(2, 5)]

\* region tables: unique names; A and C are equally far from the point (0, 5)
ScoreTables == {<<RegionA, RegionB>>, <<RegionA, RegionC, RegionB>>, <<RegionC, RegionA, RegionB>>}

\* properties every base feature carries: one key the pipeline never writes
\* and one legacy score it overwrites
LegacyProps == [name |-> "cell", dc_score |-> Rat(1, 10)]

PropsOf(id, coord, reg) ==
  Update(Update(Update(Update(LegacyProps,
    IF id = 0 THEN <<>> ELSE [hex_id |-> id]),
    IF IsNaN(coord[1]) THEN <<>> ELSE [lat |-> coord[1]]),
    IF IsNaN(coord[2]) THEN <<>> ELSE [lon |-> coord[2]]),
    IF reg = None THEN <<>> ELSE [region |-> reg])

Near == <<Rat(1, 100), Rat(1, 100)>>

Mid == <<Num(0), Num(5)>>

NoCoord == <<NaN, NaN>>

\* the property maps a base feature can have: hex 1 at Near or Mid or
\* without coordinates, hex 2 at Mid or without; untagged or tagged "B" (a
\* region far from both points); hex 1 tagged with a name no region row
\* has; a feature with only a latitude; a feature with no hex_id
FeatureProps ==
  {PropsOf(1, c, r) : c \in {Near, Mid, NoCoord}, r \in {None, "B"}}
    \cup {PropsOf(2, c, r) : c \in {Mid, NoCoord}, r \in {None, "B"}}
    \cup {PropsOf(1, Near, "Z"), PropsOf(1, <<Rat(1, 100), NaN>>, None), PropsOf(0, Near, "B")}

FeatureLists ==
  UNION {{[i \in 1..n |-> [geometry |-> i, properties |-> ps[i]]] : ps \in [1..n -> FeatureProps]}
         : n \in 0..MaxFeatures}

ClimateRow(id, temp) ==
  [hex_id |-> id, local_temp_c |-> temp, elevation_m |-> Num(100 * id), region |-> "X"]

\* climate tables: unique hex_ids, a null temperature among the values
ClimateTables ==
  {<<>>, <<ClimateRow(2, Num(30))>>}
    \cup {<<ClimateRow(1, t)>> : t \in {Num(20), NaN}}
    \cup {<<ClimateRow(1, t), ClimateRow(2, Num(30))>> : t \in {Num(20), NaN}}

----------------------------------------------------------------------------
(* The pipeline: main() *)

Init ==
  /\ pc = "load"
  /\ scores_df \in ScoreTables
  /\ climate_df \in ClimateTables
  /\ base_map \in FeatureLists
  /\ features = <<>>
  /\ hex_df = <<>>
  /\ knn_idx = <<>>
  /\ out_count = 0 - 1

\* scores_df, hex_df, features = load_base_data()
Load ==
  /\ pc = "load"
  /\ IF LoadFails(base_map)
     THEN /\ pc' = "failed"
          /\ UNCHANGED <<features, hex_df>>
     ELSE /\ pc' = "assign"
          /\ features' = base_map
          /\ hex_df' = LoadBaseData(climate_df, base_map)
  /\ UNCHANGED <<scores_df, climate_df, base_map, knn_idx, out_count>>

\* hex_df = assign_region_if_missing(hex_df, scores_df)
Assign ==
  /\ pc = "assign"
  /\ hex_df' = AssignRegionIfMissing(hex_df, scores_df)
  /\ pc' = "merge"
  /\ UNCHANGED <<scores_df, climate_df, base_map, features, knn_idx, out_count>>

\* merged = hex_df.merge(scores_df, on="region", how="left", ...)
Merge ==
  /\ pc = "merge"
  /\ hex_df' = MergeScores(hex_df, scores_df)
  /\ pc' = "score"
  /\ UNCHANGED <<scores_df, climate_df, base_map, features, knn_idx, out_count>>

\* scored = compute_hex_scores(merged)
Score ==
  /\ pc = "score"
  /\ LET raw == RawScores(hex_df)
     IN  \E idx \in KnnChoices(raw, SMOOTH_K, Len(raw)) :
           /\ knn_idx' = idx
           /\ hex_df' = WithSmooth(raw, idx)
  /\ pc' = "write"
  /\ UNCHANGED <<scores_df, climate_df, base_map, features, out_count>>

\* updated_features = update_features(features, scored); write; print the count
Write ==
  /\ pc = "write"
  /\ features' = UpdateFeatures(features, hex_df, Len(hex_df))
  /\ out_count' = PrintedCount(UpdateFeatures(features, hex_df, Len(hex_df)))
  /\ pc' = "done"
  /\ UNCHANGED <<scores_df, climate_df, base_map, hex_df, knn_idx>>

Next == Load \/ Assign \/ Merge \/ Score \/ Write

Spec == Init /\ [][Next]_vars


----------------------------------------------------------------------------
(* knn_smooth on its own: coordinates and raw scores drawn directly, with   *)
(* enough hexes for SMOOTH_K to cut the neighbourhood                       *)

\* longitude of hex i in hundredths of a degree, on the equator.  "squares":
\* all hexes apart.  "paired": hexes 4 and 5 share one point at 0, hexes 6,
\* 7, 8 lie far east of the rest, so that from each of them the two
\* farthest hexes are equally far
LonOf(layout, i) ==
  IF layout = "squares" THEN i * i
  ELSE IF i \in {4, 5} THEN 0
  ELSE IF i \in {6, 7, 8} THEN 1000 + 100 * (i - 6)
  ELSE i

SmoothRow(layout, missing, nullvals, i) ==
  [hex_id |-> i,
   lat |-> IF i = 1 /\ i \in missing THEN NaN ELSE Num(0),
   lon |-> IF i = 3 /\ i \in missing THEN NaN ELSE Rat(LonOf(layout, i), 100),
   dc_score_hex |-> IF i \in nullvals THEN NaN ELSE Num((3 * i) % 7)]

InitSmooth ==
  /\ pc = "knn"
  /\ \E n \in 1..MaxSmoothHex, layout \in {"squares", "paired"},
        missing \in SUBSET {1, 3}, nullvals \in SUBSET {2} :
       hex_df = [i \in 1..n |-> SmoothRow(layout, missing, nullvals, i)]
  /\ scores_df = <<>>
  /\ climate_df = <<>>
  /\ base_map = <<>>
  /\ features = <<>>
  /\ knn_idx = <<>>
  /\ out_count = 0 - 1

\* hex_df["dc_score_hex_smooth"] = knn_smooth(coords, values)
KnnSmoothCall ==
  /\ pc = "knn"
  /\ \E idx \in KnnChoices(hex_df, SMOOTH_K, Len(hex_df)) :
       /\ knn_idx' = idx
       /\ hex_df' = WithSmooth(hex_df, idx)
  /\ pc' = "knn_done"
  /\ UNCHANGED <<scores_df, climate_df, base_map, features, out_count>>

NextSmooth == KnnSmoothCall

SpecSmooth == InitSmooth /\ [][NextSmooth]_vars


----------------------------------------------------------------------------
(* Properties of the region assigner *)

\* the hex table as load_base_data returned it
Loaded == LoadBaseData(climate_df, base_map)

\* assign_region_if_missing has returned
Assigned == pc \in {"merge", "score", "write", "done"}

\* the distances from loaded row i to the region centroids
CentroidDist(i) == HaversineVec(Loaded[i]["lat"], Loaded[i]["lon"], scores_df)

\* C1: assign_region_if_missing leaves every region tag that was non-null
\* as it was; a row's region differs from the loaded one only if that was null.
C1_RegionKept ==
  Assigned =>
    \A i \in DOMAIN hex_df :
      /\ Loaded[i]["region"] # None => hex_df[i]["region"] = Loaded[i]["region"]
      /\ hex_df[i]["region"] # Loaded[i]["region"] => Loaded[i]["region"] = None

\* a run in which assignment ran (some tag was missing) over a hex tagged
\* "B" whose nearest centroid is another region
C1_Witness ==
  /\ pc = "merge"
  /\ \E j \in DOMAIN hex_df : Loaded[j]["region"] = None
  /\ \E i \in DOMAIN hex_df :
       /\ Loaded[i]["region"] = "B"
       /\ HasCoords(Loaded[i])
       /\ \E r \in DOMAIN scores_df :
            /\ scores_df[r]["region"] # "B"
            /\ \A q \in DOMAIN scores_df : ~RLt(CentroidDist(i)[q], CentroidDist(i)[r])
       /\ hex_df[i]["region"] = "B"

\* C2: a row loaded without a region and with both coordinates gets the
\* region of a centroid at minimum great-circle distance, and of the
\* minimal ones the first in the region table's order.
C2_NearestFirst ==
  Assigned =>
    \A i \in DOMAIN hex_df :
      (Loaded[i]["region"] = None /\ HasCoords(Loaded[i])) =>
        \E r \in DOMAIN scores_df :
          /\ hex_df[i]["region"] = scores_df[r]["region"]
          /\ \A q \in DOMAIN scores_df : ~RLt(CentroidDist(i)[q], CentroidDist(i)[r])
          /\ \A q \in DOMAIN scores_df : q < r => RLt(CentroidDist(i)[r], CentroidDist(i)[q])

\* an untagged hex with two centroids at the same minimal distance, the
\* later one of which was not assigned
C2_Witness ==
  /\ pc = "merge"
  /\ \E i \in DOMAIN hex_df :
       /\ Loaded[i]["region"] = None
       /\ HasCoords(Loaded[i])
       /\ \E r, q \in DOMAIN scores_df :
            /\ r < q
            /\ CentroidDist(i)[r] = CentroidDist(i)[q]
            /\ \A p \in DOMAIN scores_df : ~RLt(CentroidDist(i)[p], CentroidDist(i)[r])
            /\ hex_df[i]["region"] = scores_df[r]["region"]
            /\ hex_df[i]["region"] # scores_df[q]["region"]

\* C8, as claimed: a row's dist_to_region_m, and the dist_to_region written
\* onto its feature, is non-null only if the row was loaded without a region
\* (and with coordinates), so that the assigner filled it in.
C8_DistOnlyForAssigned ==
  /\ Assigned =>
       \A i \in DOMAIN hex_df :
         ~IsNaN(GetNum(hex_df[i], "dist_to_region_m")) =>
           (Loaded[i]["region"] = None /\ HasCoords(Loaded[i]))
  /\ pc = "done" =>
       \A i \in DOMAIN hex_df :
         LET j == ByHex(features, hex_df[i]["hex_id"])
         IN  (j # 0 /\ ~IsNaN(features[j].properties["dist_to_region"])) =>
               (Loaded[i]["region"] = None /\ HasCoords(Loaded[i]))


----------------------------------------------------------------------------
(* Properties of the writer *)

\* the keys update_features writes
WrittenKeys ==
  {"hex_id", "region", "lat", "lon", "local_temp_c", "elevation_m", "temp_cool_score",
   "elev_norm", "dist_to_region", "profitability", "sustainability", "dc_score",
   "dc_score_smooth", "dc_score_temp"}

\* the scored rows whose hex_id base feature j carries
RowsOf(j) ==
  {i \in DOMAIN hex_df :
     HasId(base_map[j].properties) /\ base_map[j].properties["hex_id"] = hex_df[i]["hex_id"]}

\* feature j carries the computed fields of scored row i
Carries(j, i) ==
  \A k \in WrittenKeys :
    k \in DOMAIN features[j].properties /\ features[j].properties[k] = RowProps(hex_df[i])[k]

\* the hex_ids that occur both in the geometry collection and in the climate table
CommonIds ==
  {base_map[j].properties["hex_id"] : j \in {x \in DOMAIN base_map : HasId(base_map[x].properties)}}
    \cap {climate_df[i]["hex_id"] : i \in DOMAIN climate_df}

\* C5, as claimed: after the run every feature whose hex_id is that of a
\* scored row carries that row's computed fields, also when several
\* features share one hex_id.
C5_EveryMatchUpdated ==
  pc = "done" => \A j \in DOMAIN features : \A i \in RowsOf(j) : Carries(j, i)

\* C6: update_features changes nothing but the written keys of features
\* matched by a scored row: the list keeps its length and geometries, every
\* other property of a feature keeps its value and no other key appears, and a
\* feature whose hex_id no scored row has is left as it was.
C6_Frame ==
  pc = "done" =>
    /\ Len(features) = Len(base_map)
    /\ \A j \in DOMAIN features :
         /\ features[j].geometry = base_map[j].geometry
         /\ DOMAIN features[j].properties \subseteq DOMAIN base_map[j].properties \cup WrittenKeys
         /\ \A k \in DOMAIN base_map[j].properties \ WrittenKeys :
              /\ k \in DOMAIN features[j].properties
              /\ features[j].properties[k] = base_map[j].properties[k]
         /\ RowsOf(j) = {} =>
              /\ DOMAIN features[j].properties = DOMAIN base_map[j].properties
              /\ \A k \in DOMAIN base_map[j].properties :
                   features[j].properties[k] = base_map[j].properties[k]

\* a finished run with a feature that was rewritten, a feature no scored row
\* matches, and a scored row no feature matches
C6_Witness ==
  /\ pc = "done"
  /\ \E j \in DOMAIN features :
       RowsOf(j) # {} /\ DOMAIN features[j].properties # DOMAIN base_map[j].properties
  /\ \E j \in DOMAIN features : RowsOf(j) = {}
  /\ \E i \in DOMAIN hex_df : ByHex(base_map, hex_df[i]["hex_id"]) = 0

\* C7, as claimed: the output feature count equals the number of distinct
\* hex identifiers common to the geometry collection and the climate table.
C7_CountIsCommonIds ==
  pc = "done" => (out_count = Cardinality(CommonIds) /\ Len(features) = Cardinality(CommonIds))

\* every feature has a hex_id, no two share one, and each is in the climate table
AllFeaturesCommon ==
  /\ \A j \in DOMAIN base_map :
       HasId(base_map[j].properties) /\ base_map[j].properties["hex_id"] \in CommonIds
  /\ \A j, k \in DOMAIN base_map :
       base_map[j].properties["hex_id"] = base_map[k].properties["hex_id"] => j = k

\* C7, amended: the output feature count is the number of features of the
\* input geometry collection; it is the number of common hex identifiers
\* when every feature has a hex_id of the climate table and no two share one.
C7_CountIsFeatureCount ==
  pc = "done" =>
    /\ out_count = Len(base_map)
    /\ Len(features) = Len(base_map)
    /\ AllFeaturesCommon => out_count = Cardinality(CommonIds)

\* a finished run whose geometry holds a feature outside the climate table,
\* so that the count differs from the number of common identifiers
C7_Witness ==
  /\ pc = "done"
  /\ out_count # Cardinality(CommonIds)
  /\ \E j \in DOMAIN base_map : RowsOf(j) = {}
  /\ CommonIds # {}


----------------------------------------------------------------------------
(* The end-to-end example *)

\* regions A and B, and the single hex 1 at (0.01, 0.01) with no region
\* tag, local_temp_c 20 and elevation_m 100
Example ==
  /\ scores_df = <<RegionA, RegionB>>
  /\ climate_df = <<ClimateRow(1, Num(20))>>
  /\ Loaded[1]["lat"] = Rat(1, 100)
  /\ Loaded[1]["lon"] = Rat(1, 100)
  /\ Loaded[1]["region"] = None

\* the properties written for hex 1
ExampleOut == features[ByHex(features, 1)].properties

----------------------------------------------------------------------------
(* Properties of knn_smooth *)

\* knn_smooth has returned and its result is a column of hex_df
Smoothed == pc \in {"knn_done", "write", "done"}

Valid == ValidRows(hex_df)

Raw(i) == hex_df[i]["dc_score_hex"]

Smooth(i) == hex_df[i]["dc_score_hex_smooth"]

\* great-circle distance between the hexes of rows i and j
HexDist(i, j) == Haversine(hex_df[i]["lat"], hex_df[i]["lon"], hex_df[j]["lat"], hex_df[j]["lon"])

\* C3: with at least 2 valid hexes, the smoothed score of a valid hex is
\* 0.25 * own + 0.75 * mean over exactly min(20, valid - 1) other valid
\* hexes, none of which is farther than a valid hex left out.
C3_BlendOfNearest ==
  LET V == Valid
      raw == [j \in DOMAIN hex_df |-> Raw(j)]
  IN  (Smoothed /\ Cardinality(V) >= 2) =>
        \A i \in V :
          LET N == knn_idx[i]
          IN  /\ Cardinality(N) = Min2(SMOOTH_K, Cardinality(V) - 1)
              /\ N \subseteq V \ {i}
              /\ \A s \in N : \A u \in V \ (N \cup {i}) : ~RLt(HexDist(i, u), HexDist(i, s))
              /\ Smooth(i) =
                   RAdd(RMul(Rat(1, 4), raw[i]),
                        RMul(Rat(3, 4), RDiv(SumOver(raw, N), Num(Cardinality(N)))))

\* more than SMOOTH_K + 1 valid hexes: a valid hex is left out of a neighbourhood
C3_Witness ==
  /\ Smoothed
  /\ Cardinality(Valid) > SMOOTH_K + 1
  /\ \E i \in Valid :
       /\ Cardinality(knn_idx[i]) = SMOOTH_K
       /\ \E u \in Valid \ (knn_idx[i] \cup {i}) : \E s \in knn_idx[i] : RLt(HexDist(i, s), HexDist(i, u))
       /\ ~IsNaN(Smooth(i))
       /\ Smooth(i) # Raw(i)

\* C4: no hex with a null lat or lon is in any neighbour set, no hex is in
\* its own, and the smoothed score of a hex with a null lat or lon is its
\* raw score.
C4_PoolExclusion ==
  Smoothed =>
    \A i \in DOMAIN hex_df :
      /\ \A j \in knn_idx[i] : HasCoords(hex_df[j])
      /\ i \notin knn_idx[i]
      /\ ~HasCoords(hex_df[i]) => Smooth(i) = Raw(i)

\* smoothing ran next to a hex without coordinates that has a score
C4_Witness ==
  /\ Smoothed
  /\ Cardinality(Valid) >= 2
  /\ \E i \in DOMAIN hex_df : ~HasCoords(hex_df[i]) /\ ~IsNaN(Raw(i)) /\ Smooth(i) = Raw(i)
  /\ \E i \in Valid : knn_idx[i] # {} /\ Smooth(i) # Raw(i)

\* C10: a valid hex with a null raw score stays in the pool: with at least
\* 2 valid hexes, the smoothed score of a valid hex is null exactly when its
\* own raw score or that of one of its selected neighbours is null, and a
\* null-scored valid hex is left out of a neighbour set only for distance.
C10_NullPropagates ==
  (Smoothed /\ Cardinality(Valid) >= 2) =>
    \A i \in Valid :
      /\ IsNaN(Smooth(i)) <=> (IsNaN(Raw(i)) \/ \E j \in knn_idx[i] : IsNaN(Raw(j)))
      /\ \A j \in Valid \ {i} :
           (IsNaN(Raw(j)) /\ j \notin knn_idx[i]) =>
             \A s \in knn_idx[i] : ~RLt(HexDist(i, j), HexDist(i, s))

\* a null-scored valid hex makes a neighbour's smoothed score null, while a
\* hex that does not select it keeps a number
C10_Witness ==
  /\ Smoothed
  /\ \E j \in Valid :
       /\ IsNaN(Raw(j))
       /\ \E i \in Valid : ~IsNaN(Raw(i)) /\ j \in knn_idx[i] /\ IsNaN(Smooth(i))
       /\ \E i \in Valid : j \notin knn_idx[i] /\ i # j /\ ~IsNaN(Smooth(i))


====
